---- MODULE Spec2Model ----
(***************************************************************************)
(* State-machine model of assets/imdb.js (src/assets/imdb.js) and of its   *)
(* guarded single-load variant (src/unnamed/part_000): the JSONP loader    *)
(* loadSuggest, the worker pool loadAll, normalize, the localStorage       *)
(* helpers and the single-flight submit handler onSubmit.                  *)
(*                                                                         *)
(* One action of the model is one task of the browser's event loop (a      *)
(* submit event, a timer callback, a script load or error event) together  *)
(* with the promise continuations (microtasks) that the task makes         *)
(* runnable: JavaScript runs those to completion before the next task.     *)
(***************************************************************************)
EXTENDS Integers, Sequences, FiniteSets, TLC

VARIABLES
  timed,        \* TRUE: timers fire in expiry order and `now` is the time in ms
  cfg,          \* CONFIG
  now,          \* the time in ms (stays 0 when not timed)
  timerId,      \* the id the last setTimeout returned (stays 0 when not timed)
  dom,          \* ids of the elements document.getElementById finds
  quotaFull,    \* the keys for which localStorage.setItem throws (quota exceeded, storage disabled)
  form,         \* #q.value, #variations.checked, #images.checked
  ui,           \* #status.textContent, #results.innerHTML, #progress.value
  lastJSON,     \* imdbApp closure: let lastJSON
  busy,         \* imdbApp closure: let busy
  localStorage, \* the three STORAGE keys, Absent when not set
  session,      \* the onSubmit activation suspended at `await loadAll(...)`
  pool,         \* the loadAll activation: results, i, done, canceled, globalTimer, workers
  fetches,      \* the loadSuggest activations of this loadAll call, by query index
  window,       \* JSONP callbacks registered on window: callback name -> query index
  staleTimers,  \* global timers of loadAll calls that rejected (never cleared)
  log,          \* history variables: what the handlers did, for the properties
  probe         \* a call of a pure function on its own: its arguments and its result

vars == <<timed, cfg, now, timerId, dom, quotaFull, form, ui, lastJSON, busy, localStorage,
          session, pool, fetches, window, staleTimers, log, probe>>

----------------------------------------------------------------------------
(* Bounds of the model *)

\* onSubmit invocations (accepted or rejected) in one behaviour
MaxCalls == 2
\* scaled-down CONFIG of the untimed specification
SmallMaxQueries == 3
SmallConcurrency == 2
SmallHistoryLimit == 2
\* scaled-down timeouts (ms) of the timed specification with an answering endpoint
SmallRequestTimeout == 2
SmallGlobalTimeout == 2
SmallDelay == 1

(* CONFIG, src/assets/imdb.js:10-18 *)
maxQueriesSearch == 40
maxQueriesDiscover == 40
concurrency == 6
perRequestTimeoutMs == 2500
globalTimeoutMs == 12000
interRequestDelayMs == 30
historyLimit == 15

CONFIG ==
  [maxQueriesSearch |-> maxQueriesSearch, maxQueriesDiscover |-> maxQueriesDiscover,
   concurrency |-> concurrency, perRequestTimeoutMs |-> perRequestTimeoutMs,
   globalTimeoutMs |-> globalTimeoutMs, interRequestDelayMs |-> interRequestDelayMs,
   historyLimit |-> historyLimit]

\* CONFIG with the caps, the pool width and the history cap overridden
SmallConfig ==
  [CONFIG EXCEPT !.maxQueriesSearch = SmallMaxQueries,
                 !.maxQueriesDiscover = SmallMaxQueries,
                 !.concurrency = SmallConcurrency,
                 !.historyLimit = SmallHistoryLimit]

\* SmallConfig with the three durations overridden
TimedConfig ==
  [SmallConfig EXCEPT !.perRequestTimeoutMs = SmallRequestTimeout,
                      !.globalTimeoutMs = SmallGlobalTimeout,
                      !.interRequestDelayMs = SmallDelay]

STORAGE ==
  [lastResults |-> "imdb:last_results:v1", lastMeta |-> "imdb:last_meta:v1",
   history |-> "imdb:history:v1"]
StorageKeys == {STORAGE.lastResults, STORAGE.lastMeta, STORAGE.history}

----------------------------------------------------------------------------
(* JavaScript values: a tag and a payload *)

Undefined == [t |-> "undefined"]
Null == [t |-> "null"]
Num(n) == [t |-> "number", v |-> n]
Str(s) == [t |-> "string", v |-> s]
Obj(fields) == [t |-> "object", f |-> fields]
Arr(seq) == [t |-> "array", v |-> seq]

\* ToBoolean
Truthy(x) ==
  CASE x.t \in {"undefined", "null"} -> FALSE
    [] x.t = "number" -> x.v # 0
    [] x.t = "string" -> x.v # ""
    [] OTHER -> TRUE

\* x || y
OrElse(x, y) == IF Truthy(x) THEN x ELSE y
\* x ?? y
Nullish(x, y) == IF x.t \in {"undefined", "null"} THEN y ELSE x
\* x.k for a value x that is neither null nor undefined
Get(x, k) == IF x.t = "object" /\ k \in DOMAIN x.f THEN x.f[k] ELSE Undefined
\* Array.isArray
IsArray(x) == x.t = "array"
\* typeof x === "object"
TypeofObject(x) == x.t \in {"object", "array", "null"}

Max(a, b) == IF a >= b THEN a ELSE b
Min(a, b) == IF a <= b THEN a ELSE b

\* Math.round(a / b * 100) for naturals a, b > 0: round half up
RoundPct(a, b) == (200 * a + b) \div (2 * b)

RECURSIVE SeqToSet(_)
SeqToSet(s) == IF s = <<>> THEN {} ELSE {Head(s)} \cup SeqToSet(Tail(s))

\* [...new Set(q)]: first occurrences, in order
RECURSIVE DedupFrom(_, _)
DedupFrom(s, seen) ==
  IF s = <<>> THEN <<>>
  ELSE IF Head(s) \in seen THEN DedupFrom(Tail(s), seen)
  ELSE <<Head(s)>> \o DedupFrom(Tail(s), seen \cup {Head(s)})
Dedup(s) == DedupFrom(s, {})

\* s.slice(0, n)
Slice0Untruncated(s, n) == s
Slice0(s, n) == SubSeq(s, 1, Min(Len(s), Max(n, 0)))

----------------------------------------------------------------------------
(* Strings.  A string is a TLA+ string; its i-th character is              *)
(* SubSeq(s, i, i).  LoneSurrogate stands for the single UTF-16 code unit   *)
(* U+D800 with no low surrogate after it.                                   *)

LoneSurrogate == "^"
UpperLetters == "ABCDEFGHIJKLMNOPQRSTUVWXYZ"
LowerLetters == "abcdefghijklmnopqrstuvwxyz"
Digits == "0123456789"

CharAt(s, i) == SubSeq(s, i, i)
Chars(s) == {CharAt(s, i) : i \in 1..Len(s)}

\* one character of String.prototype.toLowerCase
LowerChar(c) ==
  IF \E i \in 1..26 : CharAt(UpperLetters, i) = c
  THEN CharAt(LowerLetters, CHOOSE i \in 1..26 : CharAt(UpperLetters, i) = c)
  ELSE c

RECURSIVE toLowerCase(_)
toLowerCase(s) ==
  IF s = "" THEN "" ELSE LowerChar(CharAt(s, 1)) \o toLowerCase(SubSeq(s, 2, Len(s)))

RECURSIVE trimStart(_)
trimStart(s) ==
  IF s # "" /\ CharAt(s, 1) = " " THEN trimStart(SubSeq(s, 2, Len(s))) ELSE s
RECURSIVE trimEnd(_)
trimEnd(s) ==
  IF s # "" /\ CharAt(s, Len(s)) = " " THEN trimEnd(SubSeq(s, 1, Len(s) - 1)) ELSE s
\* String.prototype.trim
trim(s) == trimEnd(trimStart(s))

IsAlnumLower(c) == c \in Chars(LowerLetters) \cup Chars(Digits)
IsUnreserved(c) ==
  c \in Chars(LowerLetters) \cup Chars(UpperLetters) \cup Chars(Digits)
        \cup {"-", "_", ".", "!", "~", "*", "'", "(", ")"}

\* encodeURIComponent throws URIError on a lone surrogate
urlencodeThrows(s) == LoneSurrogate \in Chars(s)

\* encodeURIComponent of a string it accepts
RECURSIVE urlencode(_)
urlencode(s) ==
  IF s = "" THEN ""
  ELSE LET c == CharAt(s, 1)
           \* the space is the only reserved character of the model's strings
           e == IF IsUnreserved(c) THEN c ELSE "%20"
       IN e \o urlencode(SubSeq(s, 2, Len(s)))

buildJSONPUrl(q) ==
  LET t == trim(q)
      first == IF t = "" THEN "a" ELSE LowerChar(CharAt(t, 1))
  IN "https://sg.media-imdb.com/suggests/" \o first \o "/" \o urlencode(q) \o ".json"

RECURSIVE ReplaceNonAlnum(_)
ReplaceNonAlnum(s) ==
  IF s = "" THEN ""
  ELSE (IF IsAlnumLower(CharAt(s, 1)) THEN CharAt(s, 1) ELSE "_")
       \o ReplaceNonAlnum(SubSeq(s, 2, Len(s)))

jsonpCallbackName(q) == "imdb$" \o ReplaceNonAlnum(toLowerCase(q))

----------------------------------------------------------------------------
(* Query expansion *)

RECURSIVE EachChar(_, _)
\* for (const ch of alphabet) q.push(prefix + ch)
EachChar(prefix, alphabet) ==
  IF alphabet = "" THEN <<>>
  ELSE <<prefix \o CharAt(alphabet, 1)>> \o EachChar(prefix, SubSeq(alphabet, 2, Len(alphabet)))

DiscoverySeeds == <<"the", "new", "best", "top", "movie", "series", "2024", "2025">>

expandQueries(base, useVariations) ==
  IF base # ""
  THEN LET q == <<base>> \o
                (IF useVariations
                 THEN <<base \o " movie", base \o " series", base \o " season">>
                      \o EachChar(base \o " ", LowerLetters)
                      \o EachChar(base \o " ", Digits)
                 ELSE <<>>)
       IN Slice0(Dedup(q), cfg.maxQueriesSearch)
  ELSE Slice0(Dedup(DiscoverySeeds \o EachChar("", LowerLetters)), cfg.maxQueriesDiscover)

----------------------------------------------------------------------------
(* Normalization and rendering *)

\* /^tt/.test(id) for the ids of the model: strings and numbers
StartsWithAnything(id) == id.t = "string"
StartsWithTT(id) == id.t = "string" /\ Len(id.v) >= 2 /\ SubSeq(id.v, 1, 2) = "tt"

\* the items normalize keeps: records with a truthy id that starts with "tt"
KeepsItem(it) ==
  /\ Truthy(it)
  /\ TypeofObject(it)
  /\ Truthy(Get(it, "id"))
  /\ StartsWithTT(Get(it, "id"))

ImageField(it, wantImages, k) ==
  IF wantImages
  THEN LET i == Get(it, "i")
       IN OrElse(IF Truthy(i) THEN Get(i, k) ELSE i, Null)
  ELSE Null

ToEntry(it, wantImages) ==
  [id |-> Get(it, "id"),
   title |-> OrElse(Get(it, "l"), Str("")),
   kind |-> OrElse(Get(it, "q"), Str("")),
   year |-> Nullish(Get(it, "y"), Null),
   rank |-> Nullish(Get(it, "rank"), Null),
   href |-> "https://www.imdb.com/title/" \o Get(it, "id").v \o "/",
   image_url |-> ImageField(it, wantImages, "imageUrl"),
   image_width |-> ImageField(it, wantImages, "width"),
   image_height |-> ImageField(it, wantImages, "height")]

RECURSIVE MapEntries(_, _)
MapEntries(items, wantImages) ==
  IF items = <<>> THEN <<>>
  ELSE (IF KeepsItem(Head(items)) THEN <<ToEntry(Head(items), wantImages)>> ELSE <<>>)
       \o MapEntries(Tail(items), wantImages)

\* for (const x of out) if (!seen.has(x.id)) { seen.add(x.id); unique.push(x); }
UniqueByIdKeepLast(out, seen) ==
  LET idx == [n \in 1..Len(out) |-> <<n, out[n]>>]
      IsLast(x) == \A k \in (x[1] + 1)..Len(out) : out[k].id # x[2].id
      sel == SelectSeq(idx, IsLast)
  IN [n \in 1..Len(sel) |-> sel[n][2]]
RECURSIVE UniqueById(_, _)
UniqueById(out, seen) ==
  IF out = <<>> THEN <<>>
  ELSE IF Head(out).id \in seen THEN UniqueById(Tail(out), seen)
  ELSE <<Head(out)>> \o UniqueById(Tail(out), seen \cup {Head(out).id})

\* a.rank ?? Number.POSITIVE_INFINITY as an operand of the subtraction: a number,
\* +Infinity, or NaN for a rank that is not a number (the strings of the model
\* are not numeric)
RankNumber(r) ==
  CASE r.t = "number" -> [k |-> "num", v |-> r.v]
    [] r.t \in {"null", "undefined"} -> [k |-> "inf", v |-> 0]
    [] OTHER -> [k |-> "nan", v |-> 0]

\* the sign sort reads from the comparator (a, b) => ra - rb; NaN (a NaN operand,
\* or Infinity - Infinity) is read as 0
Compare(a, b) ==
  LET ra == RankNumber(a.rank)
      rb == RankNumber(b.rank)
  IN IF ra.k = "nan" \/ rb.k = "nan" THEN 0
     ELSE IF ra.k = "inf" THEN (IF rb.k = "inf" THEN 0 ELSE 1)
     ELSE IF rb.k = "inf" THEN -1
     ELSE IF ra.v < rb.v THEN -1 ELSE IF ra.v > rb.v THEN 1 ELSE 0

\* the comparator is negative: a sorts before b
RankBefore(a, b) == Compare(a, b) < 0

\* Array.prototype.sort is stable: x goes after every element it does not precede
RECURSIVE InsertByRank(_, _)
InsertByRank(sorted, x) ==
  IF sorted = <<>> THEN <<x>>
  ELSE IF RankBefore(x, Head(sorted)) THEN <<x>> \o sorted
  ELSE <<Head(sorted)>> \o InsertByRank(Tail(sorted), x)

RECURSIVE SortByRank(_, _)
SortByRank(unique, acc) ==
  IF unique = <<>> THEN acc
  ELSE SortByRank(Tail(unique), InsertByRank(acc, Head(unique)))

\* normalize for items whose ranks give sort a consistent comparator
normalize(items, wantImages) ==
  LET unique == SortByRank(UniqueById(MapEntries(items, wantImages), {}), <<>>)
  IN [len |-> Len(unique), titles |-> unique]

\* the comparator is consistent on the elements of unique: "compares as equal"
\* is transitive (the other conditions of ECMAScript's definition hold for
\* every Compare)
ConsistentComparator(unique) ==
  \A i, j, k \in 1..Len(unique) :
    Compare(unique[i], unique[j]) = 0 /\ Compare(unique[j], unique[k]) = 0
      => Compare(unique[i], unique[k]) = 0

\* unique.sort(comparator): the stable sort, or, when the comparator is not
\* consistent, an order the language leaves to the implementation
SortOutcomes(unique) ==
  IF ConsistentComparator(unique) THEN {SortByRank(unique, <<>>)}
  ELSE {[n \in 1..Len(unique) |-> unique[pi[n]]] : pi \in Permutations(1..Len(unique))}

\* the catalogs normalize(items, wantImages) can return
normalizeOutcomes(items, wantImages) ==
  {[len |-> Len(unique), titles |-> unique] :
     unique \in SortOutcomes(UniqueById(MapEntries(items, wantImages), {}))}

Card(t) ==
  [img |-> IF Truthy(t.image_url) THEN t.image_url ELSE Null,
   href |-> t.href,
   title |-> t.title,
   kind |-> OrElse(t.kind, Str("title")),
   year |-> IF Truthy(t.year) THEN t.year ELSE Null,
   rank |-> t.rank,
   id |-> t.id]

\* innerHTML as a fixed text and the cards in it
Html(text, cards) == [html |-> text, cards |-> cards]

renderCards(model) ==
  IF Len(model.titles) = 0 THEN Html("<p>No results.</p>", <<>>)
  ELSE Html("", [n \in 1..Len(model.titles) |-> Card(model.titles[n])])

\* textContent of #status: a format, its number and its date
Status(text, n) == [text |-> text, n |-> n, when |-> 0]

----------------------------------------------------------------------------
(* The program state as one record, so that a handler is a function from   *)
(* state to state and a task is the composition of the handlers it runs.   *)

Cur ==
  [now |-> now, tid |-> timerId, form |-> form, ui |-> ui, lastJSON |-> lastJSON, busy |-> busy,
   ls |-> localStorage, session |-> session, pool |-> pool, fetches |-> fetches,
   window |-> window, stale |-> staleTimers, log |-> log]

Becomes(s) ==
  /\ now' = s.now
  /\ timerId' = s.tid
  /\ form' = s.form
  /\ ui' = s.ui
  /\ lastJSON' = s.lastJSON
  /\ busy' = s.busy
  /\ localStorage' = s.ls
  /\ session' = s.session
  /\ pool' = s.pool
  /\ fetches' = s.fetches
  /\ window' = s.window
  /\ staleTimers' = s.stale
  /\ log' = s.log
  /\ UNCHANGED <<timed, cfg, dom, quotaFull, probe>>

\* setTimeout(f, delay): the expiry (not tracked when the run is not timed)
After(s, delay) == IF timed THEN s.now + delay ELSE 0
\* setTimeout's return value: timers of equal expiry fire in the order they were set
NextTimerId(s) == IF timed THEN s.tid + 1 ELSE 0

\* Date.now(), never 0: the time in ms after the page load at time 1; a clock
\* that ticks once per session when the run is not timed
DateNow(s) == 1 + (IF timed THEN s.now ELSE s.log.accepted)

Has(id) == id \in dom

----------------------------------------------------------------------------
(* localStorage helpers.  A key holds <<>> (no item) or <<value>>.          *)

\* localStorage.setItem(key, ...) does not throw: safeSet returns true
safeSetOk(key) == key \notin quotaFull

safeSet(s, key, value) ==
  IF safeSetOk(key) THEN [s EXCEPT !.ls[key] = <<value>>] ELSE s

safeGet(s, key, fallback) ==
  IF s.ls[key] # <<>> THEN s.ls[key][1] ELSE fallback

Flag(b) == IF b THEN "1" ELSE "0"
\* const k = `${h.query}::${h.variations?'1':'0'}::${h.images?'1':'0'}`
HistoryKeyQueryOnly(h) == h.query
HistoryKey(h) == h.query \o "::" \o Flag(h.variations) \o "::" \o Flag(h.images)

\* the dedup loop of pushHistory: push unseen keys, stop at the cap
RECURSIVE HistoryLoop(_, _, _)
HistoryLoop(hist, seen, deduped) ==
  IF hist = <<>> THEN deduped
  ELSE LET h == Head(hist)
           k == HistoryKey(h)
           d == IF k \in seen THEN deduped ELSE Append(deduped, h)
       IN IF Len(d) >= cfg.historyLimit THEN d
          ELSE HistoryLoop(Tail(hist), seen \cup {k}, d)

\* the loop reads h.query of an element that is null: TypeError
RECURSIVE HistoryLoopThrows(_, _, _)
HistoryLoopThrows(hist, seen, deduped) ==
  IF hist = <<>> THEN FALSE
  ELSE IF Head(hist) = Null THEN TRUE
  ELSE LET h == Head(hist)
           k == HistoryKey(h)
           d == IF k \in seen THEN deduped ELSE Append(deduped, h)
       IN IF Len(d) >= cfg.historyLimit THEN FALSE
          ELSE HistoryLoopThrows(Tail(hist), seen \cup {k}, d)

\* pushHistory(entry) throws: nothing catches the TypeError of the loop
pushHistoryThrows(s, entry) ==
  HistoryLoopThrows(<<entry>> \o safeGet(s, STORAGE.history, <<>>), {}, <<>>)

\* pushHistory(entry) when it does not throw
pushHistory(s, entry) ==
  LET hist == <<entry>> \o safeGet(s, STORAGE.history, <<>>)
  IN safeSet(s, STORAGE.history, HistoryLoop(hist, {}, <<>>))

Meta(query, variations, images, timestamp) ==
  [query |-> query, variations |-> variations, images |-> images, timestamp |-> timestamp]

HistEntry(meta, results) ==
  [query |-> meta.query, variations |-> meta.variations, images |-> meta.images,
   timestamp |-> meta.timestamp, results |-> results]

\* return ok1 && ok2
autosaveOk == safeSetOk(STORAGE.lastResults) /\ safeSetOk(STORAGE.lastMeta)

\* autosave as it would be if a failed write threw into onSubmit's catch block
autosaveAborting(s, meta) ==
  IF quotaFull # {}
  THEN [s EXCEPT !.ui.status = Status("Error while loading data.", 0),
                 !.ui.results = Html("<p>Failed to load.</p>", <<>>)]
  ELSE pushHistory(safeSet(safeSet(s, STORAGE.lastResults, s.lastJSON), STORAGE.lastMeta, meta),
                   HistEntry(meta, s.lastJSON.len))
autosave(s, meta) ==
  LET s1 == safeSet(s, STORAGE.lastResults, s.lastJSON)
      s2 == safeSet([s1 EXCEPT !.log.storedProducer =
                                 IF safeSetOk(STORAGE.lastResults) THEN s.log.producer ELSE @],
                    STORAGE.lastMeta, meta)
      histEntry == HistEntry(meta, s.lastJSON.len)
  IN IF pushHistoryThrows(s2, histEntry) THEN s2 ELSE pushHistory(s2, histEntry)

\* autosave(meta) throws: pushHistory does, after the two writes
autosaveThrows(s, meta) == pushHistoryThrows(s, HistEntry(meta, s.lastJSON.len))

----------------------------------------------------------------------------
(* onSubmit after `await loadAll(...)` *)

IdleSession == [active |-> FALSE, q |-> "", wantVar |-> FALSE, wantImg |-> FALSE]

\* finally { busy = false; }
Release(s, outcome) ==
  [s EXCEPT !.busy = FALSE, !.session = IdleSession, !.log.outcome = outcome]

\* the catch block
onSubmitCatch(s) ==
  Release([s EXCEPT !.ui.status = Status("Error while loading data.", 0),
                    !.ui.results = Html("<p>Failed to load.</p>", <<>>)],
          "failed")

\* the try block after loadAll returned raw; a throw of autosave goes to the catch block
onSubmitResume(s, raw) ==
  LET model == normalize(raw, s.session.wantImg)
      s1 == [s EXCEPT !.lastJSON = model,
                      !.ui.results = renderCards(model),
                      !.ui.status = Status("Found %d unique titles (capped)", model.len),
                      !.log.autosaves = @ + 1,
                      !.log.producer = <<[query |-> s.session.q, variations |-> s.session.wantVar,
                                          images |-> s.session.wantImg]>>]
      meta == Meta(s.session.q, s.session.wantVar, s.session.wantImg, DateNow(s))
      s2 == autosave(s1, meta)
  IN IF autosaveThrows(s1, meta) THEN onSubmitCatch(s2) ELSE Release(s2, "completed")

----------------------------------------------------------------------------
(* loadAll *)

NoPool ==
  [queries |-> <<>>, results |-> <<>>, i |-> 0, done |-> 0, canceled |-> FALSE,
   globalTimer |-> "none", deadline |-> 0, deadlineId |-> 0, workers |-> <<>>,
   settled |-> "none"]

\* const threads = Math.min(CONFIG.concurrency, queries.length)
ThreadsTooMany(n) == cfg.concurrency + 1
Threads(n) == Min(cfg.concurrency, n)

\* clearTimeout(globalTimer); return results
loadAllReturn(s) ==
  onSubmitResume(
    [s EXCEPT !.pool.settled = "returned",
              !.pool.globalTimer = IF @ = "armed" THEN "cleared" ELSE @],
    s.pool.results)

\* a worker's promise rejected: Promise.all rejects, the await in loadAll throws
\* before clearTimeout(globalTimer)
loadAllReject(s) ==
  onSubmitCatch(
    [s EXCEPT !.pool.settled = "rejected",
              !.pool.globalTimer = IF @ = "armed" THEN "leaked" ELSE @,
              !.stale = IF s.pool.globalTimer = "armed" THEN Append(@, <<s.pool.deadline, s.pool.deadlineId>>) ELSE @])

\* await Promise.all(workers), as it would be if the first worker to return settled it
settleOnFirstReturn(s) ==
  IF s.pool.settled # "pending" THEN s
  ELSE IF \E w \in DOMAIN s.pool.workers : s.pool.workers[w].pc = "rejected"
  THEN loadAllReject(s)
  ELSE IF \E w \in DOMAIN s.pool.workers : s.pool.workers[w].pc = "returned"
  THEN loadAllReturn(s)
  ELSE s

\* await Promise.all(workers)
settle(s) ==
  IF s.pool.settled # "pending" THEN s
  ELSE IF \E w \in DOMAIN s.pool.workers : s.pool.workers[w].pc = "rejected"
  THEN loadAllReject(s)
  ELSE IF \A w \in DOMAIN s.pool.workers : s.pool.workers[w].pc = "returned"
  THEN loadAllReturn(s)
  ELSE s

----------------------------------------------------------------------------
(* loadSuggest *)

\* the body of the promise executor, for a query encodeURIComponent accepts
loadSuggest(s, k, q) ==
  LET f == [q |-> q, cbName |-> jsonpCallbackName(q), src |-> buildJSONPUrl(q),
            done |-> FALSE, timer |-> "armed",
            expiry |-> After(s, cfg.perRequestTimeoutMs), tid |-> NextTimerId(s),
            script |-> "loading", attached |-> TRUE,
            promise |-> "pending", value |-> Undefined,
            resolveCalls |-> 0, cleanups |-> 0,
            starts |-> IF k \in DOMAIN s.fetches THEN s.fetches[k].starts + 1 ELSE 1]
  IN [s EXCEPT !.fetches = (k :> f) @@ @,
               !.window = (f.cbName :> k) @@ @,
               !.tid = f.tid]

\* while (!canceled && i < queries.length)
LoopContinuesIgnoringCancel(p) == p.i < Len(p.queries)
LoopContinues(p) == ~p.canceled /\ p.i < Len(p.queries)

\* const my = i++: the cursor after the claim
CursorStays(i) == i
NextCursor(i) == i + 1

\* a worker at the head of its loop, up to its next await or its return
workerEnter(s, w) ==
  IF LoopContinues(s.pool)
  THEN LET my == s.pool.i
           q == s.pool.queries[my + 1]
           s1 == [s EXCEPT !.pool.i = NextCursor(my),
                           !.log.claimed = Append(@, my)]
       IN IF urlencodeThrows(q)
          THEN [s1 EXCEPT !.pool.workers[w] = [pc |-> "rejected", my |-> my, wake |-> 0, tid |-> 0]]
          ELSE loadSuggest([s1 EXCEPT !.pool.workers[w] = [pc |-> "fetch", my |-> my, wake |-> 0, tid |-> 0]],
                           my, q)
  ELSE [s EXCEPT !.pool.workers[w] = [pc |-> "returned", my |-> @.my, wake |-> 0, tid |-> 0]]

\* if (data && data.d && Array.isArray(data.d)) results.push(...data.d)
AppendsData(data) == Truthy(data) /\ Truthy(Get(data, "d")) /\ IsArray(Get(data, "d"))
PushedDroppedOnCancel(p, data) ==
  IF AppendsData(data) /\ ~p.canceled THEN p.results \o Get(data, "d").v ELSE p.results
Pushed(p, data) ==
  IF AppendsData(data) THEN p.results \o Get(data, "d").v ELSE p.results

PctFloorOfPrevious(dn, total) == (100 * (dn - 1)) \div total
Pct(dn, total) == RoundPct(dn, total)

\* a worker after `await loadSuggest(q)` gave data, up to `await sleep(...)`
workerResume(s, w, data) ==
  LET dn == s.pool.done + 1
      pct == Pct(dn, Len(s.pool.queries))
  IN [s EXCEPT !.pool.results = Pushed(s.pool, data),
               !.pool.done = dn,
               !.ui.progress = IF Has("progress") THEN pct ELSE @,
               !.ui.status = Status("Loading... %d%", pct),
               !.log.pcts = Append(@, pct),
               !.log.lateData = @ + (IF s.pool.canceled /\ AppendsData(data) THEN 1 ELSE 0),
               !.pool.workers[w] = [pc |-> "sleep", my |-> @.my,
                                    wake |-> After(s, cfg.interRequestDelayMs),
                                    tid |-> NextTimerId(s)],
               !.tid = NextTimerId(s)]

\* resolve(val): settles a pending promise and resumes the worker that awaits it
resolve(s, k, val) ==
  LET s1 == [s EXCEPT !.fetches[k].resolveCalls = @ + 1]
      waiting == {w \in DOMAIN s.pool.workers :
                    s.pool.workers[w].pc = "fetch" /\ s.pool.workers[w].my = k}
  IN IF s.fetches[k].promise # "pending" THEN s1
     ELSE LET s2 == [s1 EXCEPT !.fetches[k].promise = "resolved",
                               !.fetches[k].value = val]
          IN IF waiting = {} THEN s2
             ELSE workerResume(s2, CHOOSE w \in waiting : TRUE, val)

cleanup(s, k) ==
  LET name == s.fetches[k].cbName
  IN [s EXCEPT !.window = [n \in DOMAIN @ \ {name} |-> @[n]],
               !.fetches[k].timer = IF @ = "armed" THEN "cleared" ELSE @,
               !.fetches[k].attached = FALSE,
               !.fetches[k].cleanups = @ + 1]

\* if (!done)
NeverDone(f) == FALSE
AlreadyDone(f) == f.done

\* const finish = (val) => { if (!done) { done = true; cleanup(); resolve(val); } }
finish(s, k, val) ==
  IF AlreadyDone(s.fetches[k]) THEN s
  ELSE resolve(cleanup([s EXCEPT !.fetches[k].done = TRUE], k), k, val)

----------------------------------------------------------------------------
(* loadAll and onSubmit up to the first await *)

RECURSIVE StartWorkers(_, _, _)
\* Array.from({ length: threads }, () => worker()): each worker runs to its first await
StartWorkers(s, w, threads) ==
  IF w > threads THEN s ELSE StartWorkers(workerEnter(s, w), w + 1, threads)

loadAll(s, queries) ==
  LET threads == Threads(Len(queries))
      s1 == [s EXCEPT
               !.pool = [queries |-> queries, results |-> <<>>, i |-> 0, done |-> 0,
                         canceled |-> FALSE, globalTimer |-> "armed",
                         deadline |-> After(s, cfg.globalTimeoutMs),
                         deadlineId |-> NextTimerId(s),
                         workers |-> [w \in 1..threads |->
                                        [pc |-> "new", my |-> 0, wake |-> 0, tid |-> 0]],
                         settled |-> "pending"],
               !.tid = NextTimerId(s),
               !.fetches = <<>>,
               !.ui.progress = IF Has("progress") THEN 0 ELSE @,
               !.log.pcts = <<>>,
               !.log.claimed = <<>>,
               !.log.lateData = 0]
  IN settle(StartWorkers(s1, 1, threads))

\* if (busy) return false
RejectsNever(s) == FALSE
Rejects(s) == s.busy

\* an invocation of onSubmit, up to its first await, its return or its throw
onSubmit(s) ==
  IF Rejects(s) THEN s
  ELSE LET s0 == [s EXCEPT !.busy = TRUE, !.log.accepted = @ + 1]
           threw == [s0 EXCEPT !.log.outcome = "threw"]
       IN IF ~(Has("q") /\ Has("variations") /\ Has("images") /\ Has("status")) THEN threw
          ELSE IF ~Has("results")
          THEN [threw EXCEPT !.ui.status = Status("Loading...", 0)]
          ELSE LET q == trim(s.form.q)
                   s1 == [s0 EXCEPT
                            !.session = [active |-> TRUE, q |-> q,
                                         wantVar |-> s.form.variations,
                                         wantImg |-> s.form.images],
                            !.ui.status = Status("Loading...", 0),
                            !.ui.results = Html("", <<>>),
                            !.log.outcome = "running",
                            !.log.before = <<[lastJSON |-> s.lastJSON, ls |-> s.ls]>>]
               IN loadAll(s1, expandQueries(q, s.form.variations))

----------------------------------------------------------------------------
(* The public operations save, load and clearHistory *)

save(s) ==
  LET meta == Meta(IF Has("q") THEN trim(s.form.q) ELSE "",
                   Has("variations") /\ s.form.variations,
                   Has("images") /\ s.form.images,
                   DateNow(s))
      s1 == autosave(s, meta)
  IN IF autosaveThrows(s, meta) THEN s1
     ELSE IF Has("status")
     THEN [s1 EXCEPT !.ui.status =
             Status(IF autosaveOk THEN "Saved locally." ELSE "Save failed (storage).", 0)]
     ELSE s1

renderFromSavedOk(s) == s.ls[STORAGE.lastResults] # <<>>

\* renderFromSaved(saved, meta) for a saved catalog; it throws at
\* resultsEl.innerHTML when #results is missing
renderFromSaved(s) ==
  LET saved == s.ls[STORAGE.lastResults][1]
      s1 == [s EXCEPT !.ui.results = renderCards(saved), !.lastJSON = saved,
                      !.log.producer = s.log.storedProducer]
  IN IF ~Has("results") THEN s
     ELSE IF s.ls[STORAGE.lastMeta] = <<>>
     THEN IF Has("status")
          THEN [s1 EXCEPT !.ui.status = Status("Restored %d titles from local cache", saved.len)]
          ELSE s1
     ELSE LET meta == s.ls[STORAGE.lastMeta][1]
              s2 == [s1 EXCEPT
                       !.form.q = IF Has("q") THEN meta.query ELSE @,
                       !.form.variations = IF Has("variations") THEN meta.variations ELSE @,
                       !.form.images = IF Has("images") THEN meta.images ELSE @]
          IN IF Has("status")
             THEN [s2 EXCEPT !.ui.status =
                     [text |-> "Restored %d titles from local cache (%s)",
                      n |-> saved.len, when |-> meta.timestamp]]
             ELSE s2

load(s) ==
  IF renderFromSavedOk(s) THEN renderFromSaved(s)
  ELSE IF Has("status") THEN [s EXCEPT !.ui.status = Status("No local data found.", 0)]
  ELSE s

clearHistory(s) ==
  LET s1 == safeSet(s, STORAGE.history, <<>>)
  IN IF Has("status") THEN [s1 EXCEPT !.ui.status = Status("History cleared.", 0)] ELSE s1

----------------------------------------------------------------------------
(* Inputs *)

ElementIds == {"q", "variations", "images", "status", "results", "progress"}
\* the documents the script is loaded into
DomConfigs == {ElementIds, ElementIds \ {"progress"}, ElementIds \ {"status"}}

\* what the user types into #q
Terms == {"", "m", LoneSurrogate}
Forms == [q : Terms, variations : BOOLEAN, images : BOOLEAN]
\* the form contents of the untimed specification: discovery, one query, a
\* term with its variations, a term encodeURIComponent rejects
Submissions ==
  {[q |-> "", variations |-> FALSE, images |-> FALSE],
   [q |-> "m", variations |-> FALSE, images |-> TRUE],
   [q |-> "m", variations |-> TRUE, images |-> FALSE],
   [q |-> LoneSurrogate, variations |-> FALSE, images |-> FALSE],
   [q |-> LoneSurrogate, variations |-> TRUE, images |-> TRUE]}

ItemA == Obj([id |-> Str("tt1"), l |-> Str("A"), rank |-> Num(2)])
ItemB == Obj([id |-> Str("tt2"), i |-> Obj([imageUrl |-> Str("u")]), rank |-> Num(1)])
ItemBad == Obj([id |-> Str("nm1")])

\* the argument the response script passes to the JSONP callback
Payloads ==
  {Undefined, Num(0), Obj([x |-> Num(1)]), Obj([d |-> Str("s")]),
   Obj([d |-> Arr(<<ItemB, ItemA, ItemBad>>)])}

----------------------------------------------------------------------------
(* Timers *)

\* the armed timers, each <<expiry, id>>
ArmedTimers ==
  {<<fetches[k].expiry, fetches[k].tid>> :
     k \in {j \in DOMAIN fetches : fetches[j].timer = "armed"}}
  \cup {<<pool.workers[w].wake, pool.workers[w].tid>> :
          w \in {v \in DOMAIN pool.workers : pool.workers[v].pc = "sleep"}}
  \cup (IF pool.globalTimer = "armed" THEN {<<pool.deadline, pool.deadlineId>>} ELSE {})
  \cup SeqToSet(staleTimers)

\* the timer <<e, id>> may fire: no armed timer expires earlier, and none of the
\* same expiry was set earlier
Due(e, id) ==
  timed => \A x \in ArmedTimers : e < x[1] \/ (e = x[1] /\ id <= x[2])

At(s, e) == IF timed THEN [s EXCEPT !.now = e] ELSE s

----------------------------------------------------------------------------
(* State machine *)

Init ==
  /\ timed = FALSE
  /\ cfg = SmallConfig
  /\ now = 0
  /\ timerId = 0
  /\ dom \in DomConfigs
  /\ quotaFull = {}
  /\ form \in Submissions
  /\ ui = [status |-> Status("", 0), results |-> Html("", <<>>), progress |-> 0]
  /\ lastJSON = [len |-> 0, titles |-> <<>>]
  /\ busy = FALSE
  /\ localStorage = [k \in {STORAGE.lastResults, STORAGE.lastMeta, STORAGE.history} |-> <<>>]
  /\ session = IdleSession
  /\ pool = NoPool
  /\ fetches = <<>>
  /\ window = <<>>
  /\ staleTimers = <<>>
  /\ log = [calls |-> 0, accepted |-> 0, outcome |-> "none", autosaves |-> 0,
            pcts |-> <<>>, claimed |-> <<>>, lateData |-> 0,
            producer |-> <<>>, storedProducer |-> <<>>, before |-> <<>>]
  /\ probe = <<>>

\* the submit event of the form
OnSubmit ==
  /\ log.calls < MaxCalls
  /\ Becomes(onSubmit([Cur EXCEPT !.log.calls = @ + 1]))

\* the user edits the form
EditForm ==
  /\ \E f \in Forms : f # form /\ form' = f
  /\ UNCHANGED <<timed, cfg, now, timerId, dom, quotaFull, ui, lastJSON, busy, localStorage,
                 session, pool, fetches, window, staleTimers, log, probe>>

\* writes of one key start or stop failing (the quota fills up or is freed)
QuotaChange ==
  /\ \E k \in StorageKeys :
       quotaFull' = IF k \in quotaFull THEN quotaFull \ {k} ELSE quotaFull \cup {k}
  /\ UNCHANGED <<timed, cfg, now, timerId, dom, form, ui, lastJSON, busy, localStorage,
                 session, pool, fetches, window, staleTimers, log, probe>>

\* setTimeout(() => finish(null), timeoutMs) fires
FetchTimeout ==
  \E k \in DOMAIN fetches :
    /\ fetches[k].timer = "armed"
    /\ Due(fetches[k].expiry, fetches[k].tid)
    /\ Becomes(settle(finish([At(Cur, fetches[k].expiry) EXCEPT !.fetches[k].timer = "fired"],
                             k, Null)))

\* the response script runs and calls window[cbName](data), when that is registered
ScriptLoad ==
  \E k \in DOMAIN fetches, data \in Payloads :
    /\ fetches[k].script = "loading"
    /\ LET s == [Cur EXCEPT !.fetches[k].script = "loaded"]
           name == fetches[k].cbName
       IN IF name \in DOMAIN window
          THEN Becomes(settle(finish(s, window[name], OrElse(data, Null))))
          ELSE Becomes(s)

\* script.onerror = () => finish(null)
ScriptError ==
  \E k \in DOMAIN fetches :
    /\ fetches[k].script = "loading"
    /\ Becomes(settle(finish([Cur EXCEPT !.fetches[k].script = "errored"], k, Null)))

\* await sleep(CONFIG.interRequestDelayMs) ends
SleepDone ==
  \E w \in DOMAIN pool.workers :
    /\ pool.workers[w].pc = "sleep"
    /\ Due(pool.workers[w].wake, pool.workers[w].tid)
    /\ Becomes(settle(workerEnter(At(Cur, pool.workers[w].wake), w)))

\* setTimeout(() => { canceled = true; }, CONFIG.globalTimeoutMs) fires
GlobalDeadline ==
  /\ pool.globalTimer = "armed"
  /\ Due(pool.deadline, pool.deadlineId)
  /\ Becomes([At(Cur, pool.deadline) EXCEPT !.pool.globalTimer = "fired",
                                            !.pool.canceled = TRUE])

\* the global timer of a loadAll call that rejected fires: it sets the canceled
\* flag of that call, which nothing reads any more
StaleDeadline ==
  /\ staleTimers # <<>>
  /\ Due(Head(staleTimers)[1], Head(staleTimers)[2])
  /\ Becomes([At(Cur, Head(staleTimers)[1]) EXCEPT !.stale = Tail(@)])

Save == Becomes(save(Cur)) /\ Cur # save(Cur)
Load == Becomes(load(Cur)) /\ Cur # load(Cur)
ClearHistory == Becomes(clearHistory(Cur)) /\ Cur # clearHistory(Cur)

Next ==
  \/ OnSubmit
  \/ FetchTimeout
  \/ ScriptLoad
  \/ ScriptError
  \/ SleepDone
  \/ GlobalDeadline
  \/ StaleDeadline

Spec == Init /\ [][Next]_vars

\* timers fire: a pending setTimeout callback is eventually run
FairSpec == Spec /\ WF_vars(FetchTimeout) /\ WF_vars(SleepDone)

(* The default configuration with exact timers, a document with every     *)
(* element, an empty #q and a remote endpoint that never answers: every    *)
(* fetch ends by its own timeout.                                          *)

InitDefault ==
  /\ timed = TRUE
  /\ cfg = CONFIG
  /\ now = 0
  /\ timerId = 0
  /\ dom = ElementIds
  /\ quotaFull = {}
  /\ form = [q |-> "", variations |-> FALSE, images |-> FALSE]
  /\ ui = [status |-> Status("", 0), results |-> Html("", <<>>), progress |-> 0]
  /\ lastJSON = [len |-> 0, titles |-> <<>>]
  /\ busy = FALSE
  /\ localStorage = [k \in {STORAGE.lastResults, STORAGE.lastMeta, STORAGE.history} |-> <<>>]
  /\ session = IdleSession
  /\ pool = NoPool
  /\ fetches = <<>>
  /\ window = <<>>
  /\ staleTimers = <<>>
  /\ log = [calls |-> 0, accepted |-> 0, outcome |-> "none", autosaves |-> 0,
            pcts |-> <<>>, claimed |-> <<>>, lateData |-> 0,
            producer |-> <<>>, storedProducer |-> <<>>, before |-> <<>>]
  /\ probe = <<>>

NextDefault ==
  \/ OnSubmit
  \/ FetchTimeout
  \/ SleepDone
  \/ GlobalDeadline

SpecDefault == InitDefault /\ [][NextDefault]_vars

----------------------------------------------------------------------------
(* normalize on its own: called on a list of raw items, then on the raw       *)
(* equivalents of the entries it returned                                    *)

\* raw items in one call of normalize
MaxItems == 3

RawItems ==
  {Null, Str("tt1"), Arr(<<Str("tt1")>>),
   ItemA, ItemB, ItemBad,
   Obj([id |-> Str("tt1"), l |-> Str("A2"), q |-> Str("movie"), y |-> Num(1999), rank |-> Num(1),
        i |-> Obj([imageUrl |-> Str("v"), width |-> Num(10)])]),
   Obj([id |-> Str("tt3"), rank |-> Num(2)]),
   Obj([id |-> Str("tt4")]),
   Obj([id |-> Str("tt5"), rank |-> Null, y |-> Num(0)]),
   Obj([id |-> Str("tt6"), rank |-> Str("x")]),
   Obj([id |-> Num(7), rank |-> Num(1)]),
   Obj([l |-> Str("A"), rank |-> Num(1)])}

RawLists == UNION {[1..n -> RawItems] : n \in 0..MaxItems}

\* the raw item an entry stands for: id, l, q, y, rank and the image descriptor i
ToRaw(e) ==
  Obj([id |-> e.id, l |-> e.title, q |-> e.kind, y |-> e.year, rank |-> e.rank,
       i |-> Obj([imageUrl |-> e.image_url, width |-> e.image_width,
                  height |-> e.image_height])])

InitNormalize ==
  /\ timed = FALSE
  /\ cfg = CONFIG
  /\ now = 0
  /\ timerId = 0
  /\ dom = ElementIds
  /\ quotaFull = {}
  /\ form = [q |-> "", variations |-> FALSE, images |-> FALSE]
  /\ ui = [status |-> Status("", 0), results |-> Html("", <<>>), progress |-> 0]
  /\ lastJSON = [len |-> 0, titles |-> <<>>]
  /\ busy = FALSE
  /\ localStorage = [k \in {STORAGE.lastResults, STORAGE.lastMeta, STORAGE.history} |-> <<>>]
  /\ session = IdleSession
  /\ pool = NoPool
  /\ fetches = <<>>
  /\ window = <<>>
  /\ staleTimers = <<>>
  /\ log = [calls |-> 0, accepted |-> 0, outcome |-> "none", autosaves |-> 0,
            pcts |-> <<>>, claimed |-> <<>>, lateData |-> 0,
            producer |-> <<>>, storedProducer |-> <<>>, before |-> <<>>]
  /\ \E items \in RawLists, wantImages \in BOOLEAN :
       probe = [items |-> items, wantImages |-> wantImages, out |-> <<>>, again |-> <<>>]

\* normalize(items, wantImages)
Normalize ==
  /\ probe.out = <<>>
  /\ \E c \in normalizeOutcomes(probe.items, probe.wantImages) :
       probe' = [probe EXCEPT !.out = <<c>>]
  /\ UNCHANGED <<timed, cfg, now, timerId, dom, quotaFull, form, ui, lastJSON, busy,
                 localStorage, session, pool, fetches, window, staleTimers, log>>

\* normalize(raw equivalents of the titles returned, wantImages)
Renormalize ==
  /\ probe.out # <<>>
  /\ probe.again = <<>>
  /\ LET titles == probe.out[1].titles
         raw == [n \in 1..Len(titles) |-> ToRaw(titles[n])]
     IN \E c \in normalizeOutcomes(raw, probe.wantImages) :
          probe' = [probe EXCEPT !.again = <<c>>]
  /\ UNCHANGED <<timed, cfg, now, timerId, dom, quotaFull, form, ui, lastJSON, busy,
                 localStorage, session, pool, fetches, window, staleTimers, log>>

NextNormalize ==
  \/ Normalize
  \/ Renormalize

SpecNormalize == InitNormalize /\ [][NextNormalize]_vars

----------------------------------------------------------------------------
(* expandQueries on its own, under caps from 1 up to one above the default   *)

ExpandTerms == {"", "m", "a b", " ", "0", "movie", LoneSurrogate}
ExpandCaps == {1, SmallMaxQueries, maxQueriesSearch, maxQueriesSearch + 1}

InitExpand ==
  /\ timed = FALSE
  /\ \E a, b \in ExpandCaps :
       cfg = [CONFIG EXCEPT !.maxQueriesSearch = a, !.maxQueriesDiscover = b]
  /\ now = 0
  /\ timerId = 0
  /\ dom = ElementIds
  /\ quotaFull = {}
  /\ form = [q |-> "", variations |-> FALSE, images |-> FALSE]
  /\ ui = [status |-> Status("", 0), results |-> Html("", <<>>), progress |-> 0]
  /\ lastJSON = [len |-> 0, titles |-> <<>>]
  /\ busy = FALSE
  /\ localStorage = [k \in {STORAGE.lastResults, STORAGE.lastMeta, STORAGE.history} |-> <<>>]
  /\ session = IdleSession
  /\ pool = NoPool
  /\ fetches = <<>>
  /\ window = <<>>
  /\ staleTimers = <<>>
  /\ log = [calls |-> 0, accepted |-> 0, outcome |-> "none", autosaves |-> 0,
            pcts |-> <<>>, claimed |-> <<>>, lateData |-> 0,
            producer |-> <<>>, storedProducer |-> <<>>, before |-> <<>>]
  /\ \E base \in ExpandTerms, useVariations \in BOOLEAN :
       probe = [base |-> base, useVariations |-> useVariations, out |-> <<>>]

\* expandQueries(base, useVariations)
Expand ==
  /\ probe.out = <<>>
  /\ probe' = [probe EXCEPT !.out = <<expandQueries(probe.base, probe.useVariations)>>]
  /\ UNCHANGED <<timed, cfg, now, timerId, dom, quotaFull, form, ui, lastJSON, busy,
                 localStorage, session, pool, fetches, window, staleTimers, log>>

NextExpand == Expand

SpecExpand == InitExpand /\ [][NextExpand]_vars

----------------------------------------------------------------------------
(* pushHistory on its own: calls in sequence, storage writes succeeding      *)

HistoryQueries == {"a", "b"}
\* the entries autosave builds: a meta and the len of the catalog
HistoryEntries ==
  {HistEntry(Meta(q, v, i, 1), n) : q \in HistoryQueries, v \in BOOLEAN, i \in BOOLEAN, n \in {0, 1}}

InitHistory ==
  /\ timed = FALSE
  /\ cfg = SmallConfig
  /\ now = 0
  /\ timerId = 0
  /\ dom = ElementIds
  /\ quotaFull = {}
  /\ form = [q |-> "", variations |-> FALSE, images |-> FALSE]
  /\ ui = [status |-> Status("", 0), results |-> Html("", <<>>), progress |-> 0]
  /\ lastJSON = [len |-> 0, titles |-> <<>>]
  /\ busy = FALSE
  /\ localStorage = [k \in {STORAGE.lastResults, STORAGE.lastMeta, STORAGE.history} |-> <<>>]
  /\ session = IdleSession
  /\ pool = NoPool
  /\ fetches = <<>>
  /\ window = <<>>
  /\ staleTimers = <<>>
  /\ log = [calls |-> 0, accepted |-> 0, outcome |-> "none", autosaves |-> 0,
            pcts |-> <<>>, claimed |-> <<>>, lateData |-> 0,
            producer |-> <<>>, storedProducer |-> <<>>, before |-> <<>>]
  /\ probe = [entry |-> <<>>, before |-> <<>>]

\* pushHistory(entry)
PushHistory ==
  \E entry \in HistoryEntries :
    /\ localStorage' = pushHistory(Cur, entry).ls
    /\ probe' = [entry |-> <<entry>>, before |-> safeGet(Cur, STORAGE.history, <<>>)]
    /\ UNCHANGED <<timed, cfg, now, timerId, dom, quotaFull, form, ui, lastJSON, busy,
                   session, pool, fetches, window, staleTimers, log>>

NextHistory == PushHistory

SpecHistory == InitHistory /\ [][NextHistory]_vars

----------------------------------------------------------------------------
(* Sessions in a document with every element while writes to localStorage   *)
(* fail for some keys, for all of them or for none                           *)

StorageSubmissions ==
  {[q |-> "m", variations |-> FALSE, images |-> TRUE],
   [q |-> "m", variations |-> FALSE, images |-> FALSE]}

InitStorage ==
  /\ timed = FALSE
  /\ cfg = SmallConfig
  /\ now = 0
  /\ timerId = 0
  /\ dom = ElementIds
  /\ quotaFull \in SUBSET StorageKeys
  /\ form \in StorageSubmissions
  /\ ui = [status |-> Status("", 0), results |-> Html("", <<>>), progress |-> 0]
  /\ lastJSON = [len |-> 0, titles |-> <<>>]
  /\ busy = FALSE
  /\ localStorage = [k \in StorageKeys |-> <<>>]
  /\ session = IdleSession
  /\ pool = NoPool
  /\ fetches = <<>>
  /\ window = <<>>
  /\ staleTimers = <<>>
  /\ log = [calls |-> 0, accepted |-> 0, outcome |-> "none", autosaves |-> 0,
            pcts |-> <<>>, claimed |-> <<>>, lateData |-> 0,
            producer |-> <<>>, storedProducer |-> <<>>, before |-> <<>>]
  /\ probe = <<>>

NextStorage ==
  \/ OnSubmit
  \/ FetchTimeout
  \/ ScriptLoad
  \/ ScriptError
  \/ SleepDone
  \/ GlobalDeadline
  \/ QuotaChange

SpecStorage == InitStorage /\ [][NextStorage]_vars

----------------------------------------------------------------------------
(* Exact timers and an endpoint that answers, fails or stays silent at any   *)
(* time: between two timer callbacks the clock advances in steps of 1 ms     *)

TimedSubmissions ==
  {[q |-> "", variations |-> FALSE, images |-> FALSE],
   [q |-> "m", variations |-> FALSE, images |-> TRUE],
   [q |-> "m", variations |-> TRUE, images |-> FALSE]}

InitTimed ==
  /\ timed = TRUE
  /\ cfg = TimedConfig
  /\ now = 0
  /\ timerId = 0
  /\ dom = ElementIds
  /\ quotaFull = {}
  /\ form \in TimedSubmissions
  /\ ui = [status |-> Status("", 0), results |-> Html("", <<>>), progress |-> 0]
  /\ lastJSON = [len |-> 0, titles |-> <<>>]
  /\ busy = FALSE
  /\ localStorage = [k \in StorageKeys |-> <<>>]
  /\ session = IdleSession
  /\ pool = NoPool
  /\ fetches = <<>>
  /\ window = <<>>
  /\ staleTimers = <<>>
  /\ log = [calls |-> 0, accepted |-> 0, outcome |-> "none", autosaves |-> 0,
            pcts |-> <<>>, claimed |-> <<>>, lateData |-> 0,
            producer |-> <<>>, storedProducer |-> <<>>, before |-> <<>>]
  /\ probe = <<>>

\* 1 ms passes in which no timer is due
Tick ==
  /\ ArmedTimers # {}
  /\ \A x \in ArmedTimers : now + 1 <= x[1]
  /\ now' = now + 1
  /\ UNCHANGED <<timed, cfg, timerId, dom, quotaFull, form, ui, lastJSON, busy, localStorage,
                 session, pool, fetches, window, staleTimers, log, probe>>

NextTimed ==
  \/ OnSubmit
  \/ FetchTimeout
  \/ ScriptLoad
  \/ ScriptError
  \/ SleepDone
  \/ GlobalDeadline
  \/ Tick

SpecTimed == InitTimed /\ [][NextTimed]_vars

----------------------------------------------------------------------------
(* Sessions that can fail, with the form edited in between.  localStorage is *)
(* shared by every page of the origin and outlives the page: at load the     *)
(* history key holds nothing, or a JSON array this program did not write,    *)
(* "[null]".                                                                 *)

FrameSubmissions ==
  {[q |-> "m", variations |-> FALSE, images |-> TRUE],
   [q |-> LoneSurrogate, variations |-> FALSE, images |-> FALSE]}

InitFrame ==
  /\ timed = FALSE
  /\ cfg = SmallConfig
  /\ now = 0
  /\ timerId = 0
  /\ dom = ElementIds
  /\ quotaFull = {}
  /\ form \in FrameSubmissions
  /\ ui = [status |-> Status("", 0), results |-> Html("", <<>>), progress |-> 0]
  /\ lastJSON = [len |-> 0, titles |-> <<>>]
  /\ busy = FALSE
  /\ \E stored \in {<<>>, <<(<<Null>>)>>} :
       localStorage = [k \in StorageKeys |-> IF k = STORAGE.history THEN stored ELSE <<>>]
  /\ session = IdleSession
  /\ pool = NoPool
  /\ fetches = <<>>
  /\ window = <<>>
  /\ staleTimers = <<>>
  /\ log = [calls |-> 0, accepted |-> 0, outcome |-> "none", autosaves |-> 0,
            pcts |-> <<>>, claimed |-> <<>>, lateData |-> 0,
            producer |-> <<>>, storedProducer |-> <<>>, before |-> <<>>]
  /\ probe = <<>>

\* the user replaces the contents of the form by another submission
EditSubmission ==
  /\ \E f \in FrameSubmissions : f # form /\ form' = f
  /\ UNCHANGED <<timed, cfg, now, timerId, dom, quotaFull, ui, lastJSON, busy, localStorage,
                 session, pool, fetches, window, staleTimers, log, probe>>

NextFrame ==
  \/ OnSubmit
  \/ FetchTimeout
  \/ ScriptLoad
  \/ ScriptError
  \/ SleepDone
  \/ GlobalDeadline
  \/ StaleDeadline
  \/ EditSubmission

SpecFrame == InitFrame /\ [][NextFrame]_vars

----------------------------------------------------------------------------
(* The public operations onSubmit, save, load and clearHistory in any order, *)
(* with edits of the form in between and every storage write succeeding      *)

InitOps ==
  /\ timed = FALSE
  /\ cfg = SmallConfig
  /\ now = 0
  /\ timerId = 0
  /\ dom = ElementIds
  /\ quotaFull = {}
  /\ form \in FrameSubmissions
  /\ ui = [status |-> Status("", 0), results |-> Html("", <<>>), progress |-> 0]
  /\ lastJSON = [len |-> 0, titles |-> <<>>]
  /\ busy = FALSE
  /\ localStorage = [k \in StorageKeys |-> <<>>]
  /\ session = IdleSession
  /\ pool = NoPool
  /\ fetches = <<>>
  /\ window = <<>>
  /\ staleTimers = <<>>
  /\ log = [calls |-> 0, accepted |-> 0, outcome |-> "none", autosaves |-> 0,
            pcts |-> <<>>, claimed |-> <<>>, lateData |-> 0,
            producer |-> <<>>, storedProducer |-> <<>>, before |-> <<>>]
  /\ probe = <<>>

NextOps ==
  \/ OnSubmit
  \/ FetchTimeout
  \/ ScriptLoad
  \/ ScriptError
  \/ SleepDone
  \/ GlobalDeadline
  \/ StaleDeadline
  \/ EditSubmission
  \/ Save
  \/ Load
  \/ ClearHistory

SpecOps == InitOps /\ [][NextOps]_vars

----------------------------------------------------------------------------
(* Properties *)

Last(seq) == seq[Len(seq)]
NonDecreasing(seq) == \A a, b \in 1..Len(seq) : a <= b => seq[a] <= seq[b]
InFlight == {k \in DOMAIN fetches : fetches[k].promise = "pending"}
History == IF localStorage[STORAGE.history] = <<>> THEN <<>> ELSE localStorage[STORAGE.history][1]

ProgramUnchanged ==
  UNCHANGED <<form, ui, lastJSON, busy, localStorage, session, pool, fetches, window,
              staleTimers, now, timerId>>

\* a step inside one loadAll call: no onSubmit was accepted in it
SameCall == log'.accepted = log.accepted

(* C1: an onSubmit call made while busy changes nothing (status, results,   *)
(* lastJSON, storage, history, the pool and its fetches: no fetch starts);  *)
(* and a session with a rejected second submit writes one history entry.    *)
C1_RejectedSubmitIsNoOp ==
  (busy /\ log'.calls = log.calls + 1)
    => (ProgramUnchanged /\ log' = [log EXCEPT !.calls = @ + 1])
C1_OneHistoryEntry ==
  (log.calls = 2 /\ log.accepted = 1 /\ log.outcome = "completed")
    => (log.autosaves = 1 /\ Len(History) = 1)
C1_SingleFlight == [][C1_RejectedSubmitIsNoOp]_vars /\ []C1_OneHistoryEntry
C1_Witness ==
  log.calls = 2 /\ log.accepted = 1 /\ log.outcome = "completed" /\ Len(History) = 1

(* C2: busy is true only while a session is running: every onSubmit that    *)
(* set busy has set it back when it is over, on every failure path.         *)
C2_BusyReleased == busy => session.active

(* C3 as claimed: when loadAll has returned, the pct values passed to       *)
(* onProgress are non-decreasing and the last one is 100.                   *)
C3_LastIs100 ==
  pool.settled = "returned"
    => (log.pcts # <<>> /\ NonDecreasing(log.pcts) /\ Last(log.pcts) = 100)

(* C3 as amended: the pct values are non-decreasing and at most 100; when   *)
(* loadAll has returned the last one is 100 if every query was claimed and  *)
(* below 100 if the global deadline fired before that.                      *)
C3_Progress ==
  /\ NonDecreasing(log.pcts)
  /\ \A n \in 1..Len(log.pcts) : log.pcts[n] <= 100
  /\ pool.settled = "returned" =>
       /\ log.pcts # <<>>
       /\ Last(log.pcts) = RoundPct(pool.i, Len(pool.queries))
       /\ pool.i = Len(pool.queries) => Last(log.pcts) = 100
       /\ pool.i < Len(pool.queries) => (pool.canceled /\ Last(log.pcts) < 100)
C3_Witness ==
  /\ pool.settled = "returned"
  /\ Len(log.pcts) = 3
  /\ log.pcts[1] < log.pcts[2]
  /\ Last(log.pcts) = 100

(* C4 as claimed: in the default discovery scenario with every fetch timed  *)
(* out, the session completes with len 0 and "Found 0" and progress 100.    *)
C4_ProgressReaches100 ==
  log.outcome = "completed"
    => /\ lastJSON.len = 0
       /\ ui.status = Status("Found %d unique titles (capped)", 0)
       /\ (Last(log.pcts) = 100 \/ ui.progress = 100)

(* C4 as amended: the session completes with len 0 and "Found 0 unique      *)
(* titles"; the deadline fires after 30 of the 34 queries were claimed,     *)
(* so the progress reported stops at 88.                                    *)
C4_DiscoveryAllTimeouts ==
  log.outcome = "completed"
    => /\ Len(pool.queries) = 34
       /\ lastJSON = [len |-> 0, titles |-> <<>>]
       /\ ui.status = Status("Found %d unique titles (capped)", 0)
       /\ ui.results = Html("<p>No results.</p>", <<>>)
       /\ pool.canceled
       /\ pool.done = 30
       /\ Last(log.pcts) = 88
       /\ ui.progress = 88
C4_Witness ==
  log.outcome = "completed" /\ Len(pool.queries) = 34 /\ pool.done = 30 /\ ~busy

(* C5: no index of the query list is claimed twice or fetched twice, and   *)
(* when loadAll has returned without the deadline having fired, every      *)
(* index was claimed.                                                      *)
C5_ClaimedOnce ==
  /\ \A a, b \in 1..Len(log.claimed) : a # b => log.claimed[a] # log.claimed[b]
  /\ \A k \in DOMAIN fetches : fetches[k].starts = 1
  /\ (pool.settled = "returned" /\ ~pool.canceled)
       => SeqToSet(log.claimed) = 0..(Len(pool.queries) - 1)
C5_Witness ==
  /\ pool.settled = "returned"
  /\ ~pool.canceled
  /\ Len(pool.queries) = 3
  /\ log.claimed = <<0, 1, 2>>

(* C6: once the deadline has set canceled, no loadSuggest call starts in   *)
(* that loadAll call; the deadline itself touches no fetch, and a fetch    *)
(* that resolves after it with a record carrying an array d still has its  *)
(* items appended to the aggregate.                                        *)
C6_NoClaimAfterCancel ==
  (pool.canceled /\ SameCall)
    => /\ pool'.i = pool.i
       /\ DOMAIN fetches' = DOMAIN fetches
       /\ \A k \in DOMAIN fetches : fetches'[k].starts = fetches[k].starts
C6_DeadlineAbortsNothing ==
  (~pool.canceled /\ pool'.canceled /\ SameCall)
    => (fetches' = fetches /\ window' = window /\ pool'.results = pool.results)
C6_LateResultAppended ==
  \A k \in DOMAIN fetches :
    (/\ pool.canceled
     /\ SameCall
     /\ fetches[k].promise = "pending"
     /\ fetches'[k].promise = "resolved"
     /\ AppendsData(fetches'[k].value))
      => pool'.results = pool.results \o Get(fetches'[k].value, "d").v
C6_SoftCancel ==
  /\ [][C6_NoClaimAfterCancel]_vars
  /\ [][C6_DeadlineAbortsNothing]_vars
  /\ [][C6_LateResultAppended]_vars
C6_Witness ==
  /\ pool.canceled
  /\ log.lateData > 0
  /\ pool.i < Len(pool.queries)
  /\ pool.settled = "returned"

(* C7: the number of loadSuggest calls in flight never exceeds             *)
(* min(CONFIG.concurrency, queries.length).                                *)
C7_BoundedInFlight ==
  Cardinality(InFlight) <= Min(cfg.concurrency, Len(pool.queries))
C7_Witness ==
  /\ Len(pool.queries) > cfg.concurrency
  /\ Cardinality(InFlight) = cfg.concurrency
  /\ pool.i = Len(pool.queries)

(* C8: a loadAll call that is over has returned its aggregate: it never    *)
(* raises.                                                                 *)
C8_NeverRaises == pool.settled # "rejected"

\* the rest of C8: with timers that fire, the loadAll call ends (every fetch
\* has resolved and every worker has left its loop by then)
C8_Settles == (pool.settled = "pending") ~> (pool.settled \in {"returned", "rejected"})

(* C9: a loadSuggest call resolves its promise and runs cleanup exactly    *)
(* once, at its first arrival; the value then stays, and an arrival at a   *)
(* call that is done changes no state.                                     *)
C9_OnceEach ==
  \A k \in DOMAIN fetches :
    /\ fetches[k].done <=> fetches[k].promise = "resolved"
    /\ fetches[k].resolveCalls = (IF fetches[k].done THEN 1 ELSE 0)
    /\ fetches[k].cleanups = (IF fetches[k].done THEN 1 ELSE 0)
    /\ fetches[k].done =>
         /\ fetches[k].timer # "armed"
         /\ ~fetches[k].attached
         /\ \A n \in DOMAIN window : window[n] # k
C9_FirstArrivalWins ==
  \A k \in DOMAIN fetches :
    (SameCall /\ ~fetches[k].done /\ fetches'[k].done)
      => IF fetches'[k].timer = "fired" \/ fetches'[k].script = "errored"
         THEN fetches'[k].value = Null
         ELSE /\ fetches'[k].script = "loaded"
              /\ fetches'[k].value \in {OrElse(data, Null) : data \in Payloads}
C9_LaterArrivalIsNoOp ==
  \A k \in DOMAIN fetches :
    (SameCall /\ fetches[k].done)
      => /\ fetches'[k] = [fetches[k] EXCEPT !.script = fetches'[k].script]
         /\ fetches'[k].script # fetches[k].script
              => /\ fetches' = [fetches EXCEPT ![k].script = fetches'[k].script]
                 /\ UNCHANGED <<form, ui, lastJSON, busy, localStorage, session, pool,
                                window, staleTimers, log>>
C9_ExactlyOnce ==
  /\ []C9_OnceEach
  /\ [][C9_FirstArrivalWins]_vars
  /\ [][C9_LaterArrivalIsNoOp]_vars
C9_Witness ==
  \E k \in DOMAIN fetches :
    /\ fetches[k].timer = "fired"
    /\ fetches[k].script = "errored"
    /\ fetches[k].resolveCalls = 1
    /\ fetches[k].cleanups = 1
    /\ fetches[k].value = Null

(* C10: loadSuggest never rejects, and the value it resolves to is null    *)
(* unless the callback got a record that carries an array d.               *)
C10_NullOnEveryErrorPath ==
  /\ \A w \in DOMAIN pool.workers : pool.workers[w].pc # "rejected"
  /\ \A k \in DOMAIN fetches :
       fetches[k].promise = "resolved"
         => (fetches[k].value = Null \/ AppendsData(fetches[k].value))

----------------------------------------------------------------------------
(* normalize: C11 .. C14, under SpecNormalize *)

Returned == probe.out # <<>>
Titles == probe.out[1].titles

\* a record whose id is present and starts with "tt"
IsTitleRecord(it) ==
  /\ it.t = "object"
  /\ "id" \in DOMAIN it.f
  /\ it.f.id.t = "string"
  /\ Len(it.f.id.v) >= 2
  /\ SubSeq(it.f.id.v, 1, 2) = "tt"

\* the position in the input of the first title record with this id
FirstIndex(items, id) ==
  CHOOSE n \in 1..Len(items) :
    /\ IsTitleRecord(items[n]) /\ items[n].f.id = id
    /\ \A k \in 1..(n - 1) : ~(IsTitleRecord(items[k]) /\ items[k].f.id = id)

SameRank(a, b) ==
  \/ a.rank.t = "null" /\ b.rank.t = "null"
  \/ a.rank.t = "number" /\ b.rank.t = "number" /\ a.rank.v = b.rank.v

\* no two titles share an id; the ranks that are numbers ascend, with every
\* null rank after them; titles of equal rank are in input order
UniqueRankOrderedStable(items, titles) ==
  \A i, j \in 1..Len(titles) :
    i < j =>
      /\ titles[i].id # titles[j].id
      /\ titles[i].rank.t = "null" => titles[j].rank.t # "number"
      /\ titles[i].rank.t = "number" /\ titles[j].rank.t = "number"
           => titles[i].rank.v <= titles[j].rank.v
      /\ SameRank(titles[i], titles[j])
           => FirstIndex(items, titles[i].id) < FirstIndex(items, titles[j].id)

\* C11: for every list of raw items and either wantImages, the titles normalize
\* returns have pairwise different ids, are ordered by rank ascending with every
\* null or missing rank after every ranked entry, and entries of equal rank keep
\* the relative order they had in the input.
C11_UniqueRankOrderedStable ==
  Returned => UniqueRankOrderedStable(probe.items, Titles)

\* every rank of the input is a number, null or missing
NumericRanks(items) ==
  \A n \in 1..Len(items) :
    IsTitleRecord(items[n]) /\ "rank" \in DOMAIN items[n].f
      => items[n].f.rank.t \in {"number", "null"}

\* the order of C11 for inputs whose ranks are numbers, null or missing
C11_OrderedForNumericRanks ==
  Returned /\ NumericRanks(probe.items) => UniqueRankOrderedStable(probe.items, Titles)

\* C12: when several raw items share an id, the entry normalize keeps for that
\* id is built from the first of them in input order (title, kind, year, rank,
\* image fields), also when a later duplicate has a smaller rank; later
\* duplicates contribute nothing.
C12_FirstDuplicateWins ==
  Returned =>
    \A n \in 1..Len(Titles) :
      /\ Titles[n] = ToEntry(probe.items[FirstIndex(probe.items, Titles[n].id)], probe.wantImages)
      /\ \A k \in 1..Len(Titles) : Titles[k].id = Titles[n].id => k = n

\* a later duplicate of tt1 with a smaller rank was in the input
C12_Witness ==
  /\ Returned
  /\ \E a, b \in 1..Len(probe.items) :
       /\ a < b
       /\ probe.items[a] = ItemA
       /\ IsTitleRecord(probe.items[b]) /\ probe.items[b].f.id = Str("tt1")
       /\ probe.items[b].f.rank = Num(1)
  /\ \E n \in 1..Len(Titles) : Titles[n].id = Str("tt1") /\ Titles[n].rank = Num(2)

\* C13: an id is in normalize's output iff some input item is a record whose id
\* is present and starts with "tt"; other items are dropped; len is the number
\* of titles; two title records of rank 1 and 2 and one item with another id
\* give len 2, rank 1 first.
C13_ExactlyTitleRecords ==
  Returned =>
    /\ {Titles[n].id : n \in 1..Len(Titles)}
         = {probe.items[n].f.id : n \in {k \in 1..Len(probe.items) : IsTitleRecord(probe.items[k])}}
    /\ probe.out[1].len = Len(Titles)
    /\ probe.items = <<ItemA, ItemB, ItemBad>>
         => /\ probe.out[1].len = 2
            /\ <<Titles[1].id, Titles[2].id>> = <<Str("tt2"), Str("tt1")>>

\* the example list was normalized
C13_Witness ==
  /\ Returned
  /\ probe.items = <<ItemA, ItemB, ItemBad>>
  /\ probe.out[1].len = 2

C14_IdempotentForNumericRanks ==
  probe.again # <<>> /\ NumericRanks(probe.items) => probe.again = probe.out

----------------------------------------------------------------------------
(* expandQueries: C15, under SpecExpand *)

NoDuplicates(seq) == \A i, j \in 1..Len(seq) : seq[i] = seq[j] => i = j
IsPrefixOf(p, seq) == Len(p) <= Len(seq) /\ \A n \in 1..Len(p) : p[n] = seq[n]

\* term, "term movie", "term series", "term season", "term a".."term z",
\* "term 0".."term 9"
VariationOrder(term) ==
  [n \in 1..40 |->
     IF n = 1 THEN term
     ELSE IF n = 2 THEN term \o " movie"
     ELSE IF n = 3 THEN term \o " series"
     ELSE IF n = 4 THEN term \o " season"
     ELSE IF n <= 30 THEN term \o " " \o SubSeq("abcdefghijklmnopqrstuvwxyz", n - 4, n - 4)
     ELSE term \o " " \o SubSeq("0123456789", n - 30, n - 30)]

\* the seeds, then "a".."z"
DiscoveryOrder ==
  [n \in 1..34 |->
     IF n <= 8 THEN <<"the", "new", "best", "top", "movie", "series", "2024", "2025">>[n]
     ELSE SubSeq("abcdefghijklmnopqrstuvwxyz", n - 8, n - 8)]

\* C15: for a non-empty term expandQueries returns exactly [term] without
\* variations, and with variations the duplicate-free prefix, at most
\* maxQueriesSearch long and starting with term, of term, "term movie",
\* "term series", "term season", "term a".."term z", "term 0".."term 9"; for
\* the empty term it returns the duplicate-free prefix, at most
\* maxQueriesDiscover long, of the seeds followed by the letters, whatever
\* useVariations is.
C15_ExpandQueries ==
  probe.out # <<>> =>
    LET out == probe.out[1]
    IN /\ NoDuplicates(out)
       /\ probe.base # "" /\ ~probe.useVariations => out = <<probe.base>>
       /\ probe.base # "" /\ probe.useVariations =>
            /\ out[1] = probe.base
            /\ Len(out) = Min(cfg.maxQueriesSearch, 40)
            /\ IsPrefixOf(out, VariationOrder(probe.base))
       /\ probe.base = "" =>
            /\ Len(out) = Min(cfg.maxQueriesDiscover, 34)
            /\ IsPrefixOf(out, DiscoveryOrder)

\* a term was expanded with its variations and the list cut at the cap
C15_Witness ==
  /\ probe.out # <<>>
  /\ probe.base = "m"
  /\ probe.useVariations
  /\ cfg.maxQueriesSearch = SmallMaxQueries
  /\ probe.out[1] = <<"m", "m movie", "m series">> \o SubSeq(VariationOrder("m"), 4, SmallMaxQueries)

----------------------------------------------------------------------------
(* pushHistory: C16, under SpecHistory *)

\* the dedup key of the claim: query, variations flag, images flag
KeyOf(h) == <<h.query, h.variations, h.images>>

\* C16: after any sequence of pushHistory calls the stored list has at most
\* historyLimit entries, no two entries with the same (query, variations,
\* images), the entry of the last call at its head and the older entries after
\* it in their previous order; pushing a key that is already in the list moves
\* it to the head and adds no second entry.
C16_HistoryCappedDedupedNewestFirst ==
  probe.entry # <<>> =>
    LET entry == probe.entry[1]
        OtherKey(h) == KeyOf(h) # KeyOf(entry)
    IN /\ Len(History) <= cfg.historyLimit
       /\ \A i, j \in 1..Len(History) : KeyOf(History[i]) = KeyOf(History[j]) => i = j
       /\ History[1] = entry
       /\ History = Slice0(<<entry>> \o SelectSeq(probe.before, OtherKey), cfg.historyLimit)
       /\ (\E n \in 1..Len(probe.before) : KeyOf(probe.before[n]) = KeyOf(entry))
            => Len(History) = Len(probe.before)

\* a key at the tail of a full list was pushed again, with another count
C16_Witness ==
  /\ probe.entry # <<>>
  /\ Len(probe.before) = cfg.historyLimit
  /\ KeyOf(probe.before[Len(probe.before)]) = KeyOf(probe.entry[1])
  /\ probe.before[Len(probe.before)] # probe.entry[1]
  /\ History[1] = probe.entry[1]
  /\ Len(History) = cfg.historyLimit

----------------------------------------------------------------------------
(* Storage-write failure: C17, under SpecStorage *)

\* the step in which onSubmit reaches autosave
ReachesAutosave == log'.autosaves = log.autosaves + 1

\* C17: when a localStorage write throws during autosave, the session still
\* ends with the new catalog in lastJSON and rendered, the completion status
\* (not the failure status) shown and busy false; the failed write leaves its
\* key as it was and the other keys are written.
C17_WriteFailureTolerated ==
  [][ReachesAutosave /\ quotaFull # {} =>
        /\ lastJSON' = normalize(pool'.results, session.wantImg)
        /\ ui'.results = renderCards(lastJSON')
        /\ ui'.status = Status("Found %d unique titles (capped)", lastJSON'.len)
        /\ ~busy'
        /\ log'.outcome = "completed"
        /\ \A k \in quotaFull : localStorage'[k] = localStorage[k]
        /\ STORAGE.lastResults \notin quotaFull
             => localStorage'[STORAGE.lastResults] = <<lastJSON'>>
        /\ STORAGE.history \notin quotaFull
             => localStorage'[STORAGE.history][1][1].results = lastJSON'.len]_vars

\* a session found two titles while every write failed
C17_Witness ==
  /\ log.outcome = "completed"
  /\ log.autosaves = 1
  /\ quotaFull = StorageKeys
  /\ \A k \in StorageKeys : localStorage[k] = <<>>
  /\ lastJSON.len = 2
  /\ ui.status.text = "Found %d unique titles (capped)"
  /\ ~busy

----------------------------------------------------------------------------
(* Pipeline failure: C18, under Spec *)

FailureShown ==
  /\ ui.status = Status("Error while loading data.", 0)
  /\ ui.results = Html("<p>Failed to load.</p>", <<>>)

\* a throw inside the try block ends in the failure state, with busy released
\* and no fetch started twice
C18_CaughtInsideTry ==
  /\ log.outcome = "failed" => FailureShown /\ ~busy /\ ~session.active
  /\ \A k \in DOMAIN fetches : fetches[k].starts = 1

\* C18: when any step of a session's pipeline throws (expansion, fetch,
\* normalization, publish; in onSubmit the steps after busy = true, which
\* begin with reading the form and clearing the display), the exception is
\* caught once at the onSubmit boundary: the session ends in the failure state
\* (status "Error while loading data.", results "Failed to load."), no fetch
\* is issued again, and nothing propagates out of onSubmit.
C18_ThrowIsCaughtOnce ==
  /\ log.outcome # "threw"
  /\ C18_CaughtInsideTry

----------------------------------------------------------------------------
(* Normalization after all fetches settled: C19, under Spec *)

RECURSIVE FetchedItems(_)
\* the raw items of the fetches 0..n-1 that resolved to an object with an array d
FetchedItems(n) ==
  IF n = 0 THEN {}
  ELSE FetchedItems(n - 1) \cup
       (IF (n - 1) \in DOMAIN fetches /\ AppendsData(fetches[n - 1].value)
        THEN SeqToSet(Get(fetches[n - 1].value, "d").v) ELSE {})

RECURSIVE FetchedCount(_)
FetchedCount(n) ==
  IF n = 0 THEN 0
  ELSE FetchedCount(n - 1) +
       (IF (n - 1) \in DOMAIN fetches /\ AppendsData(fetches[n - 1].value)
        THEN Len(Get(fetches[n - 1].value, "d").v) ELSE 0)

\* once loadAll has returned nothing of the call is pending: no fetch in
\* flight, no callback registered, no timer armed, and the aggregate holds
\* the items of every fetch that resolved to data
C19_AllSettledAtReturn ==
  pool.settled = "returned" =>
    /\ InFlight = {}
    /\ DOMAIN fetches = 0..(pool.i - 1)
    /\ DOMAIN window = {}
    /\ pool.globalTimer \in {"cleared", "fired"}
    /\ \A w \in DOMAIN pool.workers : pool.workers[w].pc = "returned"
    /\ \A k \in DOMAIN fetches : fetches[k].timer # "armed"
    /\ SeqToSet(pool.results) = FetchedItems(pool.i)
    /\ Len(pool.results) = FetchedCount(pool.i)

\* the catalog published at the return is normalize of the aggregate, and the
\* aggregate does not change afterwards
C19_NormalizedOnce ==
  [][/\ pool.settled = "pending" /\ pool'.settled = "returned"
        => /\ lastJSON' = normalize(pool'.results, session.wantImg)
           /\ log'.autosaves = log.autosaves + 1
     /\ pool.settled = "returned" /\ pool'.settled = "returned"
        => /\ pool'.results = pool.results
           /\ lastJSON' = lastJSON
           /\ log'.autosaves = log.autosaves]_vars

\* C19: normalization runs once, after all fetches have settled: when loadAll
\* returns no loadSuggest call of the session is in flight, no JSONP callback
\* of the session is registered and the global deadline timer is cleared, so
\* no raw item is appended after normalize read the aggregate and the
\* published catalog reflects every non-null fetch result of the session.
C19_NormalizeAfterAllSettled == []C19_AllSettledAtReturn /\ C19_NormalizedOnce

\* loadAll returned after the deadline had fired, with the data of a fetch
\* that resolved after the deadline in the catalog
C19_Witness ==
  /\ pool.settled = "returned"
  /\ pool.globalTimer = "fired"
  /\ log.lateData > 0
  /\ Cardinality(DOMAIN fetches) >= 2
  /\ lastJSON.len = 2

----------------------------------------------------------------------------
(* Bounded latency: C20, under SpecTimed *)

\* the time at which the current loadAll call started
LoadAllStart == pool.deadline - cfg.globalTimeoutMs
LatencyBound == cfg.globalTimeoutMs + cfg.perRequestTimeoutMs + cfg.interRequestDelayMs

\* a loadAll call is never pending later than the bound after its start
C20_NeverPendingPastBound ==
  pool.settled = "pending" => now <= LoadAllStart + LatencyBound

\* loadAll returns no later than the bound after its start
C20_ReturnsWithinBound ==
  [][pool.settled = "pending" /\ pool'.settled = "returned"
       => now' <= LoadAllStart + LatencyBound]_vars

\* C20: measured from the start of a loadAll call, for every query list and
\* every behaviour of the remote endpoint, loadAll returns no later than
\* globalTimeoutMs + perRequestTimeoutMs + interRequestDelayMs.
C20_BoundedLatency == []C20_NeverPendingPastBound /\ C20_ReturnsWithinBound

\* a query was claimed after the first round and before the deadline, its
\* fetch ran into its timeout after the deadline, and loadAll returned after
\* the deadline
C20_Witness ==
  /\ pool.settled = "returned"
  /\ pool.globalTimer = "fired"
  /\ now > pool.deadline
  /\ Len(log.claimed) > cfg.concurrency
  /\ \E k \in DOMAIN fetches : fetches[k].timer = "fired" /\ fetches[k].expiry > pool.deadline

----------------------------------------------------------------------------
(* Frame of a failed session: C21, under SpecFrame *)

\* lastJSON and the three persisted values are what they were when the last
\* accepted onSubmit began
AsBeforeSession ==
  /\ lastJSON = log.before[1].lastJSON
  /\ \A k \in StorageKeys : localStorage[k] = log.before[1].ls[k]

\* the frame holds for the sessions that fail because loadAll rejects
C21_FrameWhenLoadAllRejects ==
  log.outcome = "failed" /\ pool.settled = "rejected" => AsBeforeSession

----------------------------------------------------------------------------
(* Consistency of the persisted state: C22, under SpecOps *)

Persisted(key) == localStorage[key][1]
HasPersisted(key) == localStorage[key] # <<>>

\* the newest history entry counts the titles of the persisted last results
C22_HistoryCountMatches ==
  HasPersisted(STORAGE.lastResults) /\ History # <<>>
    => History[1].results = Persisted(STORAGE.lastResults).len

\* the persisted last meta is the input of the session that produced the
\* persisted last results
C22_MetaIsProducerInput ==
  HasPersisted(STORAGE.lastResults) /\ HasPersisted(STORAGE.lastMeta)
    => log.storedProducer =
         <<[query |-> Persisted(STORAGE.lastMeta).query,
            variations |-> Persisted(STORAGE.lastMeta).variations,
            images |-> Persisted(STORAGE.lastMeta).images]>>

\* C22: after any sequence and interleaving of onSubmit, save, load and
\* clearHistory, with edits of the form in between and storage writes
\* succeeding, the persisted last meta (query, variations, images) is the
\* input of the session that produced the persisted last results, and the
\* results count of the newest history entry equals the len of the persisted
\* last results.
C22_PersistedStateConsistent ==
  /\ C22_MetaIsProducerInput
  /\ C22_HistoryCountMatches

\* a session produced the persisted results and the persisted meta names
\* another query
C22_SavedUnderAnotherQuery ==
  /\ HasPersisted(STORAGE.lastResults) /\ HasPersisted(STORAGE.lastMeta)
  /\ log.storedProducer # <<>>
  /\ log.storedProducer[1].query # Persisted(STORAGE.lastMeta).query

====
